---------------------------- MODULE Spec2Model ----------------------------
(***************************************************************************)
(* DziVan Smart Builder: the App component (src/unnamed/part_000), its     *)
(* ResultView (src/components/ResultView.tsx) and the collaborator         *)
(* boundary analyzeDrawing (src/services/geminiService.ts) as one state    *)
(* machine.                                                                *)
(*                                                                         *)
(* JavaScript numbers are modelled as exact rationals plus NaN and         *)
(* undefined; floating-point rounding is abstracted away.  Pass-through    *)
(* fields that no handler reads (projectName, marketRegion, marketTrends,  *)
(* notes, base64, mimeType, previewUrl) are left out of the records.       *)
(***************************************************************************)
EXTENDS Integers, Sequences, FiniteSets, TLC

VARIABLES
  appState,         \* App: useState<AppState>
  files,            \* App: useState<UploadedFile[]>
  projectEstimate,  \* App: useState<ProjectEstimate | null>
  error,            \* App: useState<string | null>
  batches,          \* handleAnalyze invocations whose await is pending
  activeTab,        \* ResultView: useState('summary')
  selectedCategory, \* ResultView: useState('All')
  unitToggleState,  \* ResultView: keys whose flag is true
  isModalOpen,      \* ResultView: useState(false)
  newItemFileId,    \* ResultView: newItem.fileId, the modal form's target
  lastExport        \* what the latest event left outside the component state

appVars  == <<appState, files, projectEstimate, error, batches>>
viewVars == <<activeTab, selectedCategory, unitToggleState, isModalOpen,
              newItemFileId>>
vars     == <<appState, files, projectEstimate, error, batches,
              activeTab, selectedCategory, unitToggleState, isModalOpen,
              newItemFileId, lastExport>>

---------------------------------------------------------------------------
(* Bounds of the model.                                                    *)
MaxFiles   == 2   \* selected files at a time
MaxBatches == 1   \* handleAnalyze invocations in flight at a time
MaxOverlap == 2   \* invocations in flight in the specification of overlaps
MaxManual  == 1
MaxText    == 3   \* pieces of a response text   \* manually inserted rows in a project

---------------------------------------------------------------------------
(* JavaScript values.                                                      *)

NULL      == [k |-> "null"]
NaN       == [k |-> "NaN", n |-> 0, d |-> 1]
Undefined == [k |-> "undefined", n |-> 0, d |-> 1]
NoString  == "<undefined>"       \* a string field that is absent

Abs(x) == IF x < 0 THEN -x ELSE x

RECURSIVE GCD(_, _)
GCD(a, b) == IF b = 0 THEN a ELSE GCD(b, a % b)

\* The number n/d in lowest terms with a positive denominator (d # 0).
Rat(n, d) ==
  LET g == GCD(Abs(n), Abs(d))
      s == IF d < 0 THEN -1 ELSE 1
  IN  [k |-> "num", n |-> (s * n) \div g, d |-> (s * d) \div g]

Num(n) == [k |-> "num", n |-> n, d |-> 1]

IsNum(x) == x.k = "num"

\* Truthiness of a number-or-undefined value: 0, NaN and undefined are falsy.
Truthy(x) == x.k = "num" /\ x.n # 0

\* Truthiness of a string-or-undefined value: '' and undefined are falsy.
StrTruthy(s) == s # NoString /\ s # ""

\* a || b
JsOr(a, b) == IF Truthy(a) THEN a ELSE b

\* a || b on strings
StrOr(a, b) == IF StrTruthy(a) THEN a ELSE b

\* a * b : anything that is not a number coerces to NaN here.
JsMul(a, b) ==
  IF IsNum(a) /\ IsNum(b) THEN Rat(a.n * b.n, a.d * b.d) ELSE NaN

\* a + b on numbers, NaN and undefined.
JsAdd(a, b) ==
  IF IsNum(a) /\ IsNum(b) THEN Rat(a.n * b.d + b.n * a.d, a.d * b.d) ELSE NaN

\* a / b ; every call site guards b by truthiness, so b is a non-zero number.
JsDiv(a, b) ==
  IF IsNum(a) /\ IsNum(b) /\ b.n # 0 THEN Rat(a.n * b.d, a.d * b.n) ELSE NaN

\* Number(x)
ToNumber(x) == IF IsNum(x) THEN x ELSE NaN

\* a <= b on numbers (denominators are positive)
NumLeq(a, b) == IsNum(a) /\ IsNum(b) /\ a.n * b.d <= b.n * a.d

---------------------------------------------------------------------------
(* Inputs: the selected files, the collaborator's drafts, the modal form.  *)

\* UploadedFile.id is Math.random().toString(36).substring(7): nothing makes
\* two draws differ, so an id is any element of a small set.
FileIds   == {"f1", "f2"}
FileNames == {"plan.pdf"}
UploadedFiles == [id : FileIds, name : FileNames]

\* A MaterialItem of a draft; an absent field is Undefined / NoString.
Item(cat, mat, q, unit, up, tp, sq, su) ==
  [category |-> cat, material |-> mat, quantity |-> q, unit |-> unit,
   unitPrice |-> up, totalPrice |-> tp,
   secondaryQuantity |-> sq, secondaryUnit |-> su]

\* consistent item with a complete secondary pair (50 = 10 * 5); its
\* secondary rate 50 / 3 has no finite decimal expansion
ItemCement  == Item("Masonry", "Cement", Num(10), "bags", Num(5), Num(50),
                    Num(3), "cubic yards")
\* totalPrice absent
ItemSand    == Item("Masonry", "Sand", Num(2), "trips", Num(3), Undefined,
                    Undefined, NoString)
\* totalPrice supplied and different from quantity * unitPrice
ItemBlocks  == Item("Masonry", "Blocks", Num(10), "pcs", Num(5), Num(60),
                    Undefined, NoString)
\* totalPrice supplied and negative
ItemRods    == Item("Masonry", "Rods", Num(2), "pcs", Num(3), Num(-5),
                    Undefined, NoString)
\* unitPrice and totalPrice absent (an absent quantity would stop the table
\* from rendering at displayQty.toLocaleString, ResultView.tsx:575)
ItemPaint   == Item("Roofing", "Paint", Num(2), "tins", Undefined, Undefined,
                    Undefined, NoString)
\* secondaryQuantity without a secondaryUnit
ItemTimber  == Item("Roofing", "Timber", Num(2), "pcs", Num(3), Num(6),
                    Num(4), NoString)
\* secondaryUnit with a zero secondaryQuantity, totalPrice 0
ItemGravel  == Item("Masonry", "Gravel", Num(2), "trips", Num(3), Num(0),
                    Num(0), "tonnes")

\* The data of a collaborator response: JSON.parse's value.  breakdown is a
\* list or absent; totalBudget and currency are whatever the draft says.
Draft(hasList, list, tb, cur) ==
  [breakdown |-> [k |-> IF hasList THEN "list" ELSE "undefined", v |-> list],
   totalBudget |-> tb, currency |-> cur]

Drafts ==
  { Draft(FALSE, <<>>, Num(999), NoString),
    Draft(TRUE, <<>>, Undefined, "USD"),
    Draft(TRUE, <<ItemTimber, ItemCement>>, Num(7), NoString),
    Draft(TRUE, <<ItemBlocks, ItemSand>>, Num(56), "USD"),
    Draft(TRUE, <<ItemRods, ItemGravel>>, Num(-5), "GHS"),
    Draft(TRUE, <<ItemPaint>>, Num(0), "GHS") }

\* Drafts that parse as JSON but are not shaped as asked: a breakdown that
\* is a string, and a breakdown with a null entry.
MalformedDrafts ==
  { [breakdown |-> [k |-> "string", v |-> <<>>],
     totalBudget |-> Num(7), currency |-> "GHS"],
    [breakdown |-> [k |-> "list", v |-> <<NULL>>],
     totalBudget |-> Num(7), currency |-> "GHS"] }

\* What the modal form's text and number fields can hold when the submit
\* button is pressed: parseFloat of an emptied number field is NaN.  The
\* target, newItem.fileId, is state (newItemFileId) and joins them in NewItem.
FormMaterials  == {"", "Nails"}
FormQuantities == {NaN, Num(0), Num(-1), Num(2)}
FormUnitPrices == {NaN, Num(0), Num(-3), Num(3)}
FormFields ==
  [category : {"General"}, material : FormMaterials,
   quantity : FormQuantities, unit : {"pcs"}, unitPrice : FormUnitPrices]

\* newItem: the fields with the target
NewItem(fileId, fields) ==
  [fileId |-> fileId, category |-> fields.category,
   material |-> fields.material, quantity |-> fields.quantity,
   unit |-> fields.unit, unitPrice |-> fields.unitPrice]

\* every newItem over the model's ids, whether or not the form can hold it
FormInputs == {NewItem(id, f) : id \in FileIds \cup {""}, f \in FormFields}

---------------------------------------------------------------------------
(* Sequence helpers.                                                       *)

RECURSIVE FoldLeft(_, _, _)
\* arr.reduce(f, init)
FoldLeft(f(_, _), init, seq) ==
  IF seq = <<>> THEN init
  ELSE FoldLeft(f, f(init, Head(seq)), Tail(seq))

Map(f(_), seq) == [i \in 1..Len(seq) |-> f(seq[i])]

RECURSIVE Flatten(_)
Flatten(seqs) ==
  IF seqs = <<>> THEN <<>> ELSE Head(seqs) \o Flatten(Tail(seqs))

\* sequences over S of length lo..hi
SeqsOf(S, lo, hi) == UNION {[1..n -> S] : n \in lo..hi}

---------------------------------------------------------------------------
(* analyzeDrawing and handleAnalyze's per-document normalisation.          *)

\* A response text is a sequence of pieces: an opening brace, a closing
\* brace, the JSON number 5, prose, or the properties of a draft (which
\* hold braces of their own only inside, between the outer two).
Pieces == {"{", "}", "5", "x", "body"}
Texts  == SeqsOf(Pieces, 0, MaxText)

\* generateContent rejects, or resolves with a text
Responses ==
  {[rejected |-> TRUE, text |-> <<>>]} \cup
  {[rejected |-> FALSE, text |-> t] : t \in Texts}

\* the draft that "body" stands for; it carries a fileId and a fileName of
\* its own
BodyDraft ==
  [breakdown |-> [k |-> "list", v |-> <<ItemSand>>],
   totalBudget |-> Num(6), currency |-> "GHS",
   fileId |-> "zz", fileName |-> "collaborator.pdf"]

\* what spreading {} or a JSON value that is not an object contributes
NoData ==
  [breakdown |-> [k |-> "undefined", v |-> <<>>],
   totalBudget |-> Undefined, currency |-> NoString]

\* text.indexOf(piece): the 0-based place of the first one, or -1
indexOf(text, piece) ==
  IF \E i \in 1..Len(text) : text[i] = piece
  THEN (CHOOSE i \in 1..Len(text) :
          text[i] = piece /\ \A j \in 1..(i - 1) : text[j] # piece) - 1
  ELSE -1

\* text.lastIndexOf(piece): the 0-based place of the last one, or -1
lastIndexOf(text, piece) ==
  IF \E i \in 1..Len(text) : text[i] = piece
  THEN (CHOOSE i \in 1..Len(text) :
          text[i] = piece /\ \A j \in (i + 1)..Len(text) : text[j] # piece) - 1
  ELSE -1

\* text.substring(from, to): both ends clamped to 0..length, and swapped
\* when from is the larger
substring(text, from, to) ==
  LET clamp(x) == IF x < 0 THEN 0 ELSE IF x > Len(text) THEN Len(text) ELSE x
      a == clamp(from)
      b == clamp(to)
  IN  IF a <= b THEN SubSeq(text, a + 1, b) ELSE SubSeq(text, b + 1, a)

\* JSON.parse(jsonString): the value, or a SyntaxError
JSONparse(jsonString) ==
  IF jsonString = <<"{", "body", "}">> THEN [ok |-> TRUE, data |-> BodyDraft]
  ELSE IF jsonString = <<"{", "}">> THEN [ok |-> TRUE, data |-> NoData]
  ELSE IF jsonString = <<"5">> THEN [ok |-> TRUE, data |-> NoData]
  ELSE [ok |-> FALSE, data |-> NULL]

\* the try block of analyzeDrawing up to JSON.parse: the data, or a throw
ParseResponse(response) ==
  LET text       == response.text
      startIndex == indexOf(text, "{")
      endIndex   == lastIndexOf(text, "}")
  IN  IF response.rejected THEN [ok |-> FALSE, data |-> NULL]
      ELSE IF text = <<>> THEN [ok |-> FALSE, data |-> NULL]
      ELSE IF startIndex = -1 \/ endIndex = -1
      THEN [ok |-> FALSE, data |-> NULL]
      ELSE JSONparse(substring(text, startIndex, endIndex + 1))

\* the responses on which the try block throws
ThrowingResponses == {response \in Responses : ~ParseResponse(response).ok}

\* analyzeDrawing(base64, mimeType, fileName, fileId): the parsed data with
\* the caller's fileId and fileName injected, or a thrown Error.
analyzeDrawing(resp, file) ==
  IF resp.ok
  THEN [ok |-> TRUE,
        result |-> [fileId |-> file.id, fileName |-> file.name,
                    totalBudget |-> resp.data.totalBudget,
                    currency |-> resp.data.currency,
                    breakdown |-> resp.data.breakdown],
        message |-> ""]
  ELSE [ok |-> FALSE, result |-> NULL,
        message |-> "Failed to analyze " \o file.name \o ". Please try again."]

\* What the normalisation of a returned result throws, "" if nothing:
\* a truthy breakdown without a map method, or item.totalPrice read on a
\* null entry inside the map callback.
NormalizationError(result) ==
  IF result.breakdown.k = "string"
  THEN "result.breakdown.map is not a function"
  ELSE IF /\ result.breakdown.k = "list"
          /\ \E i \in 1..Len(result.breakdown.v) :
               result.breakdown.v[i] = NULL
  THEN "Cannot read properties of null (reading 'totalPrice')"
  ELSE ""

\* { ...item, totalPrice: item.totalPrice || (item.quantity * item.unitPrice) }
NormalizeItem(item) ==
  [item EXCEPT !.totalPrice =
     JsOr(item.totalPrice, JsMul(item.quantity, item.unitPrice))]

\* if (result.breakdown) result.breakdown.map(...) else []
NormalizeBreakdown(breakdown) ==
  IF breakdown.k = "list" THEN Map(NormalizeItem, breakdown.v) ELSE <<>>

AddTotalOrZero(acc, item) == JsAdd(acc, JsOr(item.totalPrice, Num(0)))

\* result.breakdown.reduce((acc, item) => acc + (item.totalPrice || 0), 0)
ComputedTotal(breakdown) == FoldLeft(AddTotalOrZero, Num(0), breakdown)

\* A faulty variant of the correction that keeps the draft's own
\* totalBudget.  It is not part of the program; C20 is required to fail when
\* it takes CorrectedResult's place.
CorrectedResultKeepingBudget(result) ==
  [fileId |-> result.fileId, fileName |-> result.fileName,
   totalBudget |-> result.totalBudget,
   currency |-> result.currency,
   breakdown |-> NormalizeBreakdown(result.breakdown)]

\* correctedResult = { ...result, totalBudget: computedTotal }
CorrectedResult(result) ==
  LET breakdown == NormalizeBreakdown(result.breakdown)
  IN  [fileId |-> result.fileId, fileName |-> result.fileName,
       totalBudget |-> ComputedTotal(breakdown),
       currency |-> result.currency,
       breakdown |-> breakdown]

AddBudget(sum, est) == JsAdd(sum, est.totalBudget)

\* estimates.reduce((sum, est) => sum + est.totalBudget, 0)
GrandTotal(estimates) == FoldLeft(AddBudget, Num(0), estimates)

\* { grandTotal, currency: estimates[0]?.currency || 'GHS', estimates }
NewProjectEstimate(estimates) ==
  [grandTotal |-> GrandTotal(estimates),
   currency |-> StrOr(IF estimates = <<>> THEN NoString
                      ELSE estimates[1].currency, "GHS"),
   estimates |-> estimates]

---------------------------------------------------------------------------
(* Manual insertion: handleModalSubmit and handleAddManualItem.            *)

\* the documents' ids, in order: the options of the form's select
OptionIds(pe) ==
  IF pe = NULL THEN <<>>
  ELSE [i \in 1..Len(pe.estimates) |-> pe.estimates[i].fileId]

\* the option the select shows for value={newItem.fileId}: the matching one,
\* and the first one when none matches
SelectedOption(pe, fileId) ==
  IF \E i \in 1..Len(OptionIds(pe)) : OptionIds(pe)[i] = fileId THEN fileId
  ELSE IF OptionIds(pe) = <<>> THEN NoString
  ELSE OptionIds(pe)[1]

\* min="0.01" of the quantity field
MinQuantity == Rat(1, 100)

\* min="0" of the unit price field
MinUnitPrice == Num(0)

\* A faulty variant of the form without the two min attributes.  It is not
\* part of the program; C8 is required to fail when it takes FormValid's
\* place.
FormValidWithoutMin(pe, newItem) ==
  /\ StrTruthy(SelectedOption(pe, newItem.fileId))
  /\ StrTruthy(newItem.category)
  /\ StrTruthy(newItem.material)
  /\ IsNum(newItem.quantity)
  /\ StrTruthy(newItem.unit)
  /\ IsNum(newItem.unitPrice)

\* The form's constraints (required, type="number", min): the browser calls
\* onSubmit only when every field satisfies them, and shows its own
\* validation message otherwise.
FormValid(pe, newItem) ==
  /\ StrTruthy(SelectedOption(pe, newItem.fileId))
  /\ StrTruthy(newItem.category)
  /\ StrTruthy(newItem.material)
  /\ IsNum(newItem.quantity) /\ NumLeq(MinQuantity, newItem.quantity)
  /\ StrTruthy(newItem.unit)
  /\ IsNum(newItem.unitPrice) /\ NumLeq(MinUnitPrice, newItem.unitPrice)

\* the early return of handleModalSubmit
ModalSubmitReturnsEarly(newItem) ==
  \/ ~StrTruthy(newItem.fileId)
  \/ ~StrTruthy(newItem.material)
  \/ ~Truthy(newItem.quantity)
  \/ ~Truthy(newItem.unitPrice)

\* the MaterialItem handleModalSubmit hands to onAddItem
ModalItem(newItem) ==
  Item(StrOr(newItem.category, "General"), newItem.material,
       ToNumber(newItem.quantity), StrOr(newItem.unit, "pcs"),
       ToNumber(newItem.unitPrice),
       JsMul(ToNumber(newItem.quantity), ToNumber(newItem.unitPrice)),
       Undefined, NoString)

AddTotal(sum, i) == JsAdd(sum, i.totalPrice)

\* newBreakdown.reduce((sum, i) => sum + i.totalPrice, 0)
NewTotal(newBreakdown) == FoldLeft(AddTotal, Num(0), newBreakdown)

\* the map callback of handleAddManualItem
AddToEstimate(est, fileId, item) ==
  IF est.fileId = fileId
  THEN LET totalPrice   == JsMul(item.quantity, item.unitPrice)
           newItem      == [item EXCEPT !.totalPrice = totalPrice]
           newBreakdown == <<newItem>> \o est.breakdown
       IN  [est EXCEPT !.breakdown = newBreakdown,
                       !.totalBudget = NewTotal(newBreakdown)]
  ELSE est

\* A faulty variant of handleAddManualItem that forgets newGrandTotal: the
\* documents are updated and grandTotal keeps its old value.  It is not part
\* of the program; C2 is required to fail when it takes the handler's place.
handleAddManualItemStaleGrandTotal(pe, fileId, item) ==
  IF pe = NULL THEN pe
  ELSE [pe EXCEPT !.estimates =
          [i \in 1..Len(pe.estimates) |->
             AddToEstimate(pe.estimates[i], fileId, item)]]

\* handleAddManualItem(fileId, item): the next projectEstimate
handleAddManualItem(pe, fileId, item) ==
  IF pe = NULL THEN pe
  ELSE LET updatedEstimates ==
             [i \in 1..Len(pe.estimates) |->
                AddToEstimate(pe.estimates[i], fileId, item)]
       IN  [pe EXCEPT !.estimates = updatedEstimates,
                      !.grandTotal = GrandTotal(updatedEstimates)]

\* the projectEstimate after handleModalSubmit on the form contents newItem
SubmitResult(pe, newItem) ==
  IF ModalSubmitReturnsEarly(newItem) THEN pe
  ELSE handleAddManualItem(pe, newItem.fileId, ModalItem(newItem))

\* the submit button inserts: the form is valid and the handler goes through
Inserts(pe, newItem) ==
  FormValid(pe, newItem) /\ ~ModalSubmitReturnsEarly(newItem)

\* Everything the submit button leaves behind.  An invalid form never
\* reaches handleModalSubmit; the handler calls onAddItem and
\* setIsModalOpen(false), and touches neither appState nor error.
SubmitPost(st, pe, err, open, newItem) ==
  [appState        |-> st,
   error           |-> err,
   projectEstimate |-> IF Inserts(pe, newItem)
                       THEN SubmitResult(pe, newItem) ELSE pe,
   isModalOpen     |-> IF Inserts(pe, newItem) THEN FALSE ELSE open]

---------------------------------------------------------------------------
(* The Dual-Unit derivations of the table row and of the two exports.      *)

\* a toggle key `${fileId}-${idx}` (idx counted from 0)
Key(fileId, idx) == <<fileId, idx>>

\* A faulty variant of the table row that takes the secondary rate from
\* unitPrice instead of totalPrice / secondaryQuantity.  It is not part of
\* the program; C11 is required to fail when it takes ScreenTriple's place.
ScreenTripleRateFromUnitPrice(item, toggles, key) ==
  LET isToggled == key \in toggles
  IN  [qty  |-> IF isToggled /\ Truthy(item.secondaryQuantity)
                THEN item.secondaryQuantity ELSE item.quantity,
       unit |-> IF isToggled /\ StrTruthy(item.secondaryUnit)
                THEN item.secondaryUnit ELSE item.unit,
       rate |-> item.unitPrice]

\* the table row: isToggled, displayQty, displayUnit, displayRate
ScreenTriple(item, toggles, key) ==
  LET isToggled == key \in toggles
  IN  [qty  |-> IF isToggled /\ Truthy(item.secondaryQuantity)
                THEN item.secondaryQuantity ELSE item.quantity,
       unit |-> IF isToggled /\ StrTruthy(item.secondaryUnit)
                THEN item.secondaryUnit ELSE item.unit,
       rate |-> IF isToggled /\ Truthy(item.secondaryQuantity)
                THEN JsDiv(item.totalPrice, item.secondaryQuantity)
                ELSE item.unitPrice]

\* A faulty variant of the PDF row that exports the canonical values
\* whatever the flag says.  It is not part of the program; C15 is required
\* to fail when it takes PdfTriple's place.
PdfTripleCanonical(item, toggles, key) ==
  [qty |-> item.quantity, unit |-> item.unit, rate |-> item.unitPrice]

\* handleExportPDF: qty, unit, price of a body row
PdfTriple(item, toggles, key) ==
  LET isToggled == key \in toggles
  IN  [qty  |-> IF isToggled /\ Truthy(item.secondaryQuantity)
                THEN item.secondaryQuantity ELSE item.quantity,
       unit |-> IF isToggled /\ StrTruthy(item.secondaryUnit)
                THEN item.secondaryUnit ELSE item.unit,
       rate |-> IF isToggled /\ Truthy(item.secondaryQuantity)
                THEN JsDiv(item.totalPrice, item.secondaryQuantity)
                ELSE item.unitPrice]

\* handleExportExcel: Quantity, Unit, UnitPrice of a detail row
ExcelTriple(item, toggles, key) ==
  LET isToggled == key \in toggles
  IN  [qty  |-> IF isToggled /\ Truthy(item.secondaryQuantity)
                THEN item.secondaryQuantity ELSE item.quantity,
       unit |-> IF isToggled /\ StrTruthy(item.secondaryUnit)
                THEN item.secondaryUnit ELSE item.unit,
       rate |-> IF isToggled /\ Truthy(item.secondaryQuantity)
                THEN JsDiv(item.totalPrice, item.secondaryQuantity)
                ELSE item.unitPrice]

\* hasSecondary: whether the row shows its toggle button
hasSecondary(item) ==
  Truthy(item.secondaryQuantity) /\ StrTruthy(item.secondaryUnit)

\* est.breakdown.map((item, idx) => ({...item, _key, _file}))
KeyedRows(est) ==
  [i \in 1..Len(est.breakdown) |->
     [item |-> est.breakdown[i], key |-> Key(est.fileId, i - 1),
      file |-> est.fileName]]

\* projectData.estimates.find(e => e.fileId === activeTab), as a 0/1 list
currentEstimate(pe, tab) ==
  IF tab = "summary" THEN <<>>
  ELSE LET hits == {i \in 1..Len(pe.estimates) : pe.estimates[i].fileId = tab}
       IN  IF hits = {} THEN <<>>
           ELSE <<pe.estimates[CHOOSE i \in hits : \A j \in hits : i <= j]>>

displayItems(pe, tab) ==
  IF tab = "summary"
  THEN Flatten([i \in 1..Len(pe.estimates) |-> KeyedRows(pe.estimates[i])])
  ELSE IF currentEstimate(pe, tab) # <<>>
       THEN KeyedRows(currentEstimate(pe, tab)[1])
       ELSE <<>>

filteredItems(pe, tab, category) ==
  IF category = "All" THEN displayItems(pe, tab)
  ELSE LET rows == displayItems(pe, tab)
           keep == {i \in 1..Len(rows) : rows[i].item.category = category}
           RECURSIVE Pick(_)
           Pick(i) == IF i > Len(rows) THEN <<>>
                      ELSE (IF i \in keep THEN <<rows[i]>> ELSE <<>>)
                           \o Pick(i + 1)
       IN  Pick(1)

AddRowTotalOrZero(sum, row) == JsAdd(sum, JsOr(row.item.totalPrice, Num(0)))

\* filteredItems.reduce((sum, item) => sum + (item.totalPrice || 0), 0)
currentViewTotal(pe, tab, category) ==
  FoldLeft(AddRowTotalOrZero, Num(0), filteredItems(pe, tab, category))

\* ['All', ...new Set(displayItems.map(i => i.category))]
categories(pe, tab) ==
  {"All"} \cup {displayItems(pe, tab)[i].item.category :
                  i \in 1..Len(displayItems(pe, tab))}

---------------------------------------------------------------------------
(* Display formatting and the cells of the table.                          *)

\* x rounded to hundredths, halves away from zero; NaN for a non-number
Round2(x) ==
  IF ~IsNum(x) THEN NaN
  ELSE LET sign == IF x.n < 0 THEN -1 ELSE 1
       IN  Rat(sign * ((200 * Abs(x.n) + x.d) \div (2 * x.d)), 100)

\* a written figure: how it was rendered, its currency if any, and the
\* number the rendering shows
Cell(fmt, cur, v) == [fmt |-> fmt, cur |-> cur, v |-> v]

\* a number written as it is
NumberCell(x) == Cell("number", "", x)

\* x.toFixed(2)
toFixed2(x) == Cell("fixed2", "", Round2(x))

\* x.toLocaleString(undefined, { maximumFractionDigits: 2 })
toLocaleString2(x) == Cell("locale2", "", Round2(x))

\* formatCurrency(amount): Intl.NumberFormat with style 'currency' in
\* projectData.currency || 'GHS', two fraction digits (every currency of
\* Drafts is a valid code, so the catch branch is not taken)
formatCurrency(pe, amount) ==
  Cell("currency", StrOr(pe.currency, "GHS"), Round2(amount))

\* A faulty variant of the amount cell that multiplies the displayed rate
\* by the primary quantity.  It is not part of the program; C12 is required
\* to fail when it takes ScreenAmount's place.
ScreenAmountFromRate(pe, item, toggles, key) ==
  formatCurrency(pe, JsMul(ScreenTriple(item, toggles, key).rate,
                           item.quantity))

\* the amount cell of a table row
ScreenAmount(pe, item, toggles, key) == formatCurrency(pe, item.totalPrice)

\* the figures of a table row as the screen shows them
ScreenRow(pe, item, toggles, key) ==
  LET shown == ScreenTriple(item, toggles, key)
  IN  [qty   |-> toLocaleString2(shown.qty),
       unit  |-> shown.unit,
       rate  |-> formatCurrency(pe, shown.rate),
       total |-> ScreenAmount(pe, item, toggles, key)]

\* handleExportPDF: the cells of a body row of autoTable
PdfRow(pe, item, toggles, key) ==
  LET t == PdfTriple(item, toggles, key)
  IN  [qty   |-> toFixed2(t.qty),
       unit  |-> t.unit,
       rate  |-> formatCurrency(pe, t.rate),
       total |-> formatCurrency(pe, item.totalPrice)]

\* handleExportExcel: Quantity, Unit, UnitPrice, TotalPrice of a detail row
ExcelRow(item, toggles, key) ==
  LET t == ExcelTriple(item, toggles, key)
  IN  [qty   |-> NumberCell(t.qty),
       unit  |-> t.unit,
       rate  |-> NumberCell(t.rate),
       total |-> NumberCell(item.totalPrice)]

\* handleExportPDF: the "Total Budget" line of the summary
PdfGrandTotal(pe) == formatCurrency(pe, pe.grandTotal)

\* handleExportExcel: the "Grand Total" row of the Summary sheet
ExcelGrandTotal(pe) == NumberCell(pe.grandTotal)

\* A faulty variant of the Summary sheet's document row that sums the
\* breakdown again.  It is not part of the program; C16 is required to fail
\* when it takes ExcelSubtotal's place.
ExcelSubtotalResummed(est) == NumberCell(ComputedTotal(est.breakdown))

\* handleExportExcel: the row of one document on the Summary sheet
ExcelSubtotal(est) == NumberCell(est.totalBudget)

---------------------------------------------------------------------------
(* The state machine.  The modal is an overlay that covers the page        *)
(* (ResultView.tsx:622-624): while it is open only its own controls take   *)
(* clicks, hence the ~isModalOpen guards of the other buttons.             *)

Str(s) == [k |-> "string", s |-> s]

\* ResultView is rendered: appState === RESULTS && projectEstimate
Mounted(st, pe) == st = "RESULTS" /\ pe # NULL

\* rows a user added through the modal (drafts never use the form's names)
IsManual(item) == item.material \in FormMaterials

ManualCount(pe) ==
  IF pe = NULL THEN 0
  ELSE Len(SelectSeq(
         Flatten([i \in 1..Len(pe.estimates) |-> pe.estimates[i].breakdown]),
         IsManual))

\* ResultView's useState initial values
ViewInit ==
  /\ activeTab = "summary"
  /\ selectedCategory = "All"
  /\ unitToggleState = {}
  /\ isModalOpen = FALSE
  /\ newItemFileId = ""

\* ResultView keeps its state while it stays rendered and starts afresh
\* whenever it is rendered anew.
ViewAfter(st, pe) ==
  IF Mounted(appState, projectEstimate) /\ Mounted(st, pe)
  THEN UNCHANGED viewVars
  ELSE /\ activeTab' = "summary"
       /\ selectedCategory' = "All"
       /\ unitToggleState' = {}
       /\ isModalOpen' = FALSE
       /\ newItemFileId' = ""

Init ==
  /\ appState = "IDLE"
  /\ files = <<>>
  /\ projectEstimate = NULL
  /\ error = NULL
  /\ batches = <<>>
  /\ ViewInit
  /\ lastExport = "none"

RemoveAt(seq, b) == [i \in 1..(Len(seq) - 1) |-> IF i < b THEN seq[i] ELSE seq[i + 1]]

\* processFiles: the accepted files are appended once the last one is read
processFiles ==
  /\ appState = "IDLE"
  /\ \E new \in SeqsOf(UploadedFiles, 0, MaxFiles - Len(files)) :
       files' = files \o new
  /\ error' = NULL
  /\ UNCHANGED <<appState, projectEstimate, batches, viewVars>>
  /\ lastExport' = "none"

removeFile ==
  /\ appState = "IDLE"
  /\ \E k \in 1..Len(files) :
       files' = SelectSeq(files, LAMBDA f : f.id # files[k].id)
  /\ UNCHANGED <<appState, projectEstimate, error, batches, viewVars>>
  /\ lastExport' = "none"

\* A faulty variant of handleAnalyze without the early return for an empty
\* selection: it shows ANALYZING with nothing to analyse.  It is not part of
\* the program; C30 is required to fail when it takes handleAnalyzeWithin's
\* place.
handleAnalyzeWithoutReturn(maxBatches) ==
  /\ appState = "IDLE"
  /\ Len(batches) < maxBatches
  /\ appState' = "ANALYZING"
  /\ batches' = IF files = <<>> THEN batches
                ELSE Append(batches, [files |-> files, i |-> 1, estimates |-> <<>>])
  /\ UNCHANGED <<files, projectEstimate, error>>
  /\ ViewAfter("ANALYZING", projectEstimate)
  /\ lastExport' = "none"

\* handleAnalyze up to its first await, with at most maxBatches invocations
\* awaiting a call at a time
handleAnalyzeWithin(maxBatches) ==
  /\ appState = "IDLE"
  /\ IF files = <<>>
     THEN UNCHANGED vars
     ELSE /\ Len(batches) < maxBatches
          /\ appState' = "ANALYZING"
          /\ batches' = Append(batches, [files |-> files, i |-> 1, estimates |-> <<>>])
          /\ UNCHANGED <<files, projectEstimate, error>>
          /\ ViewAfter("ANALYZING", projectEstimate)
          /\ lastExport' = "none"

\* A faulty variant of the catch block that publishes the estimates
\* gathered before the failure.  It is not part of the program; C18 is
\* required to fail when it takes analyzeFails's place.
analyzeFailsKeepingPartial ==
  \E b \in 1..Len(batches) :
    LET B == batches[b]
        r == analyzeDrawing([ok |-> FALSE, data |-> NULL], B.files[B.i])
    IN  /\ error' = Str(r.message)
        /\ appState' = "ERROR"
        /\ batches' = RemoveAt(batches, b)
        /\ projectEstimate' = NewProjectEstimate(B.estimates)
        /\ UNCHANGED files
        /\ ViewAfter("ERROR", NewProjectEstimate(B.estimates))
        /\ lastExport' = "none"

handleAnalyze == handleAnalyzeWithin(MaxBatches)

\* the pending analyzeDrawing of batch b throws on its response: the catch
\* block.  What is thrown does not depend on which of the throwing
\* responses it was (the inner catch replaces the error), so one stands for
\* all.
analyzeFails ==
  \E b \in 1..Len(batches) :
    LET B == batches[b]
        response == CHOOSE x \in ThrowingResponses : TRUE
        r == analyzeDrawing(ParseResponse(response), B.files[B.i])
    IN  /\ ~r.ok
        /\ error' = Str(r.message)
        /\ appState' = "ERROR"
        /\ batches' = RemoveAt(batches, b)
        /\ UNCHANGED <<files, projectEstimate>>
        /\ ViewAfter("ERROR", projectEstimate)
        /\ lastExport' = "none"

\* A faulty variant of the loop that starts the call for the file after
\* the next one and drops the result in hand.  It is not part of the
\* program; C19 is required to fail when it takes analyzeNext's place.
analyzeNextSkipping ==
  \E b \in 1..Len(batches) :
    LET B == batches[b]
    IN  /\ B.i < Len(B.files)
        /\ batches' = [batches EXCEPT ![b] = [B EXCEPT !.i = B.i + 2]]
        /\ UNCHANGED <<appState, files, projectEstimate, error, viewVars>>
        /\ lastExport' = "none"

\* the pending analyzeDrawing of batch b returns a draft whose normalisation
\* throws inside the try: the same catch block, with the TypeError's message
normalizeFails ==
  \E b \in 1..Len(batches) : \E d \in MalformedDrafts :
    LET B == batches[b]
        r == analyzeDrawing([ok |-> TRUE, data |-> d], B.files[B.i])
    IN  /\ NormalizationError(r.result) # ""
        /\ error' = Str(NormalizationError(r.result))
        /\ appState' = "ERROR"
        /\ batches' = RemoveAt(batches, b)
        /\ UNCHANGED <<files, projectEstimate>>
        /\ ViewAfter("ERROR", projectEstimate)
        /\ lastExport' = "none"

\* the pending analyzeDrawing of batch b returns one of drafts and another
\* file follows
analyzeNextOf(drafts) ==
  \E b \in 1..Len(batches) : \E d \in drafts :
    LET B == batches[b]
        r == analyzeDrawing([ok |-> TRUE, data |-> d], B.files[B.i])
    IN  /\ B.i < Len(B.files)
        /\ batches' = [batches EXCEPT ![b] =
              [B EXCEPT !.i = B.i + 1,
                        !.estimates = Append(B.estimates, CorrectedResult(r.result))]]
        /\ UNCHANGED <<appState, files, projectEstimate, error, viewVars>>
        /\ lastExport' = "none"

analyzeNext == analyzeNextOf(Drafts)

\* the pending analyzeDrawing of the last file of batch b returns one of
\* drafts
analyzeLastOf(drafts) ==
  \E b \in 1..Len(batches) : \E d \in drafts :
    LET B == batches[b]
        r == analyzeDrawing([ok |-> TRUE, data |-> d], B.files[B.i])
        estimates == Append(B.estimates, CorrectedResult(r.result))
    IN  /\ B.i = Len(B.files)
        /\ projectEstimate' = NewProjectEstimate(estimates)
        /\ appState' = "RESULTS"
        /\ batches' = RemoveAt(batches, b)
        /\ UNCHANGED <<files, error>>
        /\ ViewAfter("RESULTS", NewProjectEstimate(estimates))
        /\ lastExport' = "none"

analyzeLast == analyzeLastOf(Drafts)

\* the header logo and ResultView's "Start New Project Analysis"
resetApp ==
  /\ ~isModalOpen
  /\ appState' = "IDLE"
  /\ files' = <<>>
  /\ projectEstimate' = NULL
  /\ error' = NULL
  /\ UNCHANGED batches
  /\ ViewAfter("IDLE", NULL)
  /\ lastExport' = "none"

\* the error banner's Retry button
retry ==
  /\ appState = "ERROR"
  /\ appState' = "IDLE"
  /\ UNCHANGED <<files, projectEstimate, error, batches>>
  /\ ViewAfter("IDLE", projectEstimate)
  /\ lastExport' = "none"

setActiveTab ==
  /\ Mounted(appState, projectEstimate) /\ ~isModalOpen
  /\ \E t \in {"summary"} \cup
              {projectEstimate.estimates[i].fileId :
                 i \in 1..Len(projectEstimate.estimates)} :
       activeTab' = t
  /\ UNCHANGED <<appVars, selectedCategory, unitToggleState, isModalOpen,
                 newItemFileId>>
  /\ lastExport' = "none"

setSelectedCategory ==
  /\ Mounted(appState, projectEstimate) /\ ~isModalOpen
  /\ \E c \in categories(projectEstimate, activeTab) : selectedCategory' = c
  /\ UNCHANGED <<appVars, activeTab, unitToggleState, isModalOpen,
                 newItemFileId>>
  /\ lastExport' = "none"

\* A faulty variant of the updater that sets the flag instead of flipping
\* it.  It is not part of the program; C13 is required to fail when it
\* takes Toggled's place.
ToggledOn(toggles, key) == toggles \cup {key}

\* setUnitToggleState(prev => ({...prev, [key]: !prev[key]})); a key whose
\* entry is false reads like an absent key everywhere (lines 86, 137, 547),
\* so the map is the set of keys whose flag is true
Toggled(toggles, key) ==
  IF key \in toggles THEN toggles \ {key} ELSE toggles \cup {key}

\* the button of a table row that has a secondary pair
toggleItemUnit ==
  /\ Mounted(appState, projectEstimate) /\ ~isModalOpen
  /\ LET rows == filteredItems(projectEstimate, activeTab, selectedCategory)
     IN  \E i \in 1..Len(rows) :
           /\ hasSecondary(rows[i].item)
           /\ unitToggleState' = Toggled(unitToggleState, rows[i].key)
  /\ UNCHANGED <<appVars, activeTab, selectedCategory, isModalOpen,
                 newItemFileId>>
  /\ lastExport' = "none"

\* openModal: the target defaults to the active tab's document, or to the
\* first document on the summary tab
openModal ==
  /\ Mounted(appState, projectEstimate) /\ ~isModalOpen
  /\ newItemFileId' =
       IF activeTab # "summary" THEN activeTab
       ELSE IF projectEstimate.estimates = <<>> THEN NoString
       ELSE projectEstimate.estimates[1].fileId
  /\ isModalOpen' = TRUE
  /\ UNCHANGED <<appVars, activeTab, selectedCategory, unitToggleState>>
  /\ lastExport' = "none"

\* the onChange of the form's select: one of the listed documents
setNewItemFileId ==
  /\ Mounted(appState, projectEstimate) /\ isModalOpen
  /\ \E i \in 1..Len(OptionIds(projectEstimate)) :
       newItemFileId' = OptionIds(projectEstimate)[i]
  /\ UNCHANGED <<appVars, activeTab, selectedCategory, unitToggleState,
                 isModalOpen>>
  /\ lastExport' = "none"

\* the modal's X and Cancel buttons
closeModal ==
  /\ Mounted(appState, projectEstimate) /\ isModalOpen
  /\ isModalOpen' = FALSE
  /\ UNCHANGED <<appVars, activeTab, selectedCategory, unitToggleState,
                 newItemFileId>>
  /\ lastExport' = "none"

\* The form's submit button with whatever the fields hold: the browser's
\* validation, then handleModalSubmit.  Either nothing happens (the form is
\* invalid, or the handler returns early) or the row is inserted and the
\* modal closes.
handleModalSubmit ==
  \/ /\ Mounted(appState, projectEstimate) /\ isModalOpen
     /\ ~ \A fields \in FormFields :
            Inserts(projectEstimate, NewItem(newItemFileId, fields))
     /\ UNCHANGED vars
  \/ /\ Mounted(appState, projectEstimate) /\ isModalOpen
     /\ ManualCount(projectEstimate) < MaxManual
     /\ \E fields \in FormFields :
          /\ Inserts(projectEstimate, NewItem(newItemFileId, fields))
          /\ projectEstimate' =
               SubmitPost(appState, projectEstimate, error, isModalOpen,
                          NewItem(newItemFileId, fields)).projectEstimate
          /\ isModalOpen' =
               SubmitPost(appState, projectEstimate, error, isModalOpen,
                          NewItem(newItemFileId, fields)).isModalOpen
     /\ UNCHANGED <<appState, files, error, batches, activeTab,
                    selectedCategory, unitToggleState, newItemFileId>>
     /\ lastExport' = "none"

\* A faulty variant of the PDF export that forgets the unit flags.  It is
\* not part of the program; C17 is required to fail when it takes
\* handleExportPDF's place.
handleExportPDFClearingToggles ==
  /\ Mounted(appState, projectEstimate) /\ ~isModalOpen
  /\ lastExport' = "saved"
  /\ unitToggleState' = {}
  /\ UNCHANGED <<appVars, activeTab, selectedCategory, isModalOpen,
                 newItemFileId>>

\* The PDF button.  The handler builds the document from projectData and
\* unitToggleState and calls no setter; it either reaches doc.save or is
\* ended by an exception of jsPDF / autoTable, which it does not catch.
\* lastExport is what the click left behind: a saved file or an uncaught
\* exception.  It is followed up to the next event only.
handleExportPDF ==
  /\ Mounted(appState, projectEstimate) /\ ~isModalOpen
  /\ lastExport' \in {"saved", "failed"}
  /\ UNCHANGED <<appVars, viewVars>>

\* The Excel button: the same with XLSX.writeFile
handleExportExcel ==
  /\ Mounted(appState, projectEstimate) /\ ~isModalOpen
  /\ lastExport' \in {"saved", "failed"}
  /\ UNCHANGED <<appVars, viewVars>>

Next ==
  \/ processFiles
  \/ removeFile
  \/ handleAnalyze
  \/ analyzeFails
  \/ normalizeFails
  \/ analyzeNext
  \/ analyzeLast
  \/ resetApp
  \/ retry
  \/ setActiveTab
  \/ setSelectedCategory
  \/ toggleItemUnit
  \/ openModal
  \/ setNewItemFileId
  \/ closeModal
  \/ handleModalSubmit
  \/ handleExportPDF
  \/ handleExportExcel

Spec == Init /\ [][Next]_vars

\* The specification of overlapping invocations: handleAnalyze may be
\* started again while an earlier invocation still awaits its call (the
\* header's reset is available during ANALYZING).  To make room for the
\* second invocation the collaborator's answers are two of Drafts, and of
\* ResultView's controls only the modal of the manual insertion is used.
OverlapDrafts ==
  { Draft(TRUE, <<>>, Undefined, "USD"),
    Draft(TRUE, <<ItemBlocks, ItemSand>>, Num(56), "USD") }

NextOverlap ==
  \/ processFiles
  \/ removeFile
  \/ handleAnalyzeWithin(MaxOverlap)
  \/ analyzeFails
  \/ normalizeFails
  \/ analyzeNextOf(OverlapDrafts)
  \/ analyzeLastOf(OverlapDrafts)
  \/ resetApp
  \/ retry
  \/ openModal
  \/ closeModal
  \/ handleModalSubmit

SpecOverlap == Init /\ [][NextOverlap]_vars

\* an awaited analyzeDrawing settles: it throws, or it returns and the loop
\* goes on to its next await, to the catch, or to the end
CallSettles ==
  \/ analyzeFails
  \/ normalizeFails
  \/ analyzeNextOf(OverlapDrafts)
  \/ analyzeLastOf(OverlapDrafts)

\* The same steps under the assumption that an awaited collaborator call
\* does not stay pending for ever.
SpecLive == Init /\ [][NextOverlap]_vars /\ WF_vars(CallSettles)

---------------------------------------------------------------------------
(* Vocabulary of the properties.                                           *)

HasProject == projectEstimate # NULL

Docs(pe) == 1..Len(pe.estimates)

RECURSIVE SumSeq(_)
\* the sum of a sequence of values, left to right
SumSeq(values) ==
  IF values = <<>> THEN Num(0)
  ELSE JsAdd(Head(values), SumSeq(Tail(values)))

TotalPrices(est) == [i \in 1..Len(est.breakdown) |-> est.breakdown[i].totalPrice]
TotalBudgets(pe) == [i \in 1..Len(pe.estimates) |-> pe.estimates[i].totalBudget]

\* the documents of pe that a manual insertion addressed to fileId reaches
Targets(pe, fileId) == {d \in Docs(pe) : pe.estimates[d].fileId = fileId}

DistinctIds(pe) ==
  \A i, j \in Docs(pe) :
    pe.estimates[i].fileId = pe.estimates[j].fileId => i = j

\* what the modal form can hold in this state
Forms == {NewItem(newItemFileId, fields) : fields \in FormFields}

\* the state the submit button leaves behind on the form contents newItem
Post(newItem) ==
  SubmitPost(appState, projectEstimate, error, isModalOpen, newItem)

\* a state in which the modal form can be submitted and an accepted row
\* still fits the model's bound
CanSubmit ==
  /\ Mounted(appState, projectEstimate)
  /\ isModalOpen
  /\ ManualCount(projectEstimate) < MaxManual

Positive(x) == IsNum(x) /\ x.n > 0
Negative(x) == IsNum(x) /\ x.n < 0
IsZero(x)   == IsNum(x) /\ x.n = 0

---------------------------------------------------------------------------
(* C1: in every state that holds a project estimate, each document's       *)
(* totalBudget is the sum of the totalPrice of its line items.             *)
C1_BudgetIsSumOfItems ==
  HasProject =>
    \A d \in Docs(projectEstimate) :
      projectEstimate.estimates[d].totalBudget
        = SumSeq(TotalPrices(projectEstimate.estimates[d]))

(* C2: in every state that holds a project estimate, grandTotal is the sum *)
(* of the documents' totalBudget (the same JavaScript value).              *)
C2_GrandTotalIsSumOfBudgets ==
  HasProject =>
    projectEstimate.grandTotal = SumSeq(TotalBudgets(projectEstimate))

\* a project of two documents with distinct ids and different non-zero
\* budgets, one of which received a manual row
C2_Witness ==
  /\ HasProject
  /\ Len(projectEstimate.estimates) = 2
  /\ DistinctIds(projectEstimate)
  /\ ManualCount(projectEstimate) > 0
  /\ Truthy(projectEstimate.estimates[1].totalBudget)
  /\ Truthy(projectEstimate.estimates[2].totalBudget)
  /\ projectEstimate.estimates[1].totalBudget
       # projectEstimate.estimates[2].totalBudget

(* C3: every line item of every document of a project estimate has         *)
(* totalPrice = quantity * unitPrice, whatever the draft supplied.         *)
C3_TotalPriceIsProduct ==
  HasProject =>
    \A d \in Docs(projectEstimate) :
      \A i \in 1..Len(projectEstimate.estimates[d].breakdown) :
        LET item == projectEstimate.estimates[d].breakdown[i]
        IN  item.totalPrice = JsMul(item.quantity, item.unitPrice)

(* C4: while a collaborator call is pending, whatever draft it returns, a   *)
(* line item with numeric quantity and unitPrice whose supplied totalPrice *)
(* is absent, zero or negative is normalised to quantity * unitPrice.      *)
C4_NonPositiveTotalRecomputed ==
  \A b \in 1..Len(batches) : \A draft \in Drafts :
    LET file == batches[b].files[batches[b].i]
        est  == CorrectedResult(
                  analyzeDrawing([ok |-> TRUE, data |-> draft], file).result)
    IN  draft.breakdown.k = "list" =>
          \A i \in 1..Len(draft.breakdown.v) :
            LET item == draft.breakdown.v[i]
            IN  ( /\ IsNum(item.quantity) /\ IsNum(item.unitPrice)
                  /\ \/ item.totalPrice = Undefined
                     \/ IsZero(item.totalPrice)
                     \/ Negative(item.totalPrice) )
                => est.breakdown[i].totalPrice
                     = JsMul(item.quantity, item.unitPrice)

(* C5: an accepted manual insertion of (quantity q, unitPrice u) into an    *)
(* existing document stores the row with totalPrice q * u and raises that  *)
(* document's totalBudget and the grandTotal by exactly q * u.             *)
C5_InsertionAddsProduct ==
  CanSubmit =>
    \A newItem \in {f \in Forms : Inserts(projectEstimate, f)} :
      \A d \in Targets(projectEstimate, newItem.fileId) :
        LET amount == JsMul(newItem.quantity, newItem.unitPrice)
            after  == Post(newItem).projectEstimate
        IN  /\ after.estimates[d].breakdown[1].totalPrice = amount
            /\ after.estimates[d].totalBudget
                 = JsAdd(projectEstimate.estimates[d].totalBudget, amount)
            /\ after.grandTotal = JsAdd(projectEstimate.grandTotal, amount)

(* C6: an accepted manual insertion into document d puts the new row at     *)
(* position 0 of d, keeps d's earlier rows in order behind it, and leaves  *)
(* every other document and the currency as they were.                     *)
C6_InsertionFrame ==
  CanSubmit =>
    \A newItem \in {f \in Forms : Inserts(projectEstimate, f)} :
      \A d \in Targets(projectEstimate, newItem.fileId) :
        LET after == Post(newItem).projectEstimate
        IN  /\ after.estimates[d].breakdown[1].material = newItem.material
            /\ Tail(after.estimates[d].breakdown)
                 = projectEstimate.estimates[d].breakdown
            /\ after.currency = projectEstimate.currency
            /\ Len(after.estimates) = Len(projectEstimate.estimates)
            /\ \A e \in Docs(projectEstimate) \ {d} :
                 after.estimates[e] = projectEstimate.estimates[e]

\* the error banner is what the program shows for an error
ErrorShown(post) == post.appState = "ERROR" /\ post.error # NULL

(* C7: a manual insertion whose target identifier matches no document of    *)
(* the project, whatever identifier reaches the handlers, is rejected: an  *)
(* error is reported and the project estimate is unchanged.                *)
C7_UnknownTargetRejected ==
  (Mounted(appState, projectEstimate) /\ isModalOpen) =>
    \A newItem \in FormInputs :
      Targets(projectEstimate, newItem.fileId) = {} =>
        LET post == Post(newItem)
        IN  /\ post.projectEstimate = projectEstimate
            /\ ErrorShown(post)

(* C8: submitting the modal form with a quantity that is zero, negative or  *)
(* NaN, or a unitPrice that is negative or NaN, leaves the project         *)
(* estimate unchanged, and every manual row of every reachable project has *)
(* quantity > 0 and unitPrice >= 0.                                        *)
C8_InvalidNumbersRejected ==
  /\ (Mounted(appState, projectEstimate) /\ isModalOpen) =>
       \A newItem \in Forms :
         ( \/ ~Positive(newItem.quantity)
           \/ ~IsNum(newItem.unitPrice)
           \/ Negative(newItem.unitPrice) )
         => Post(newItem).projectEstimate = projectEstimate
  /\ HasProject =>
       \A d \in Docs(projectEstimate) :
         \A i \in 1..Len(projectEstimate.estimates[d].breakdown) :
           LET item == projectEstimate.estimates[d].breakdown[i]
           IN  IsManual(item) =>
                 Positive(item.quantity) /\ ~Negative(item.unitPrice)
                 /\ IsNum(item.unitPrice)

\* the modal is open on a project that already holds a manual row
C8_Witness ==
  /\ Mounted(appState, projectEstimate)
  /\ isModalOpen
  /\ ManualCount(projectEstimate) > 0
  /\ DistinctIds(projectEstimate)

(* C9: a manual insertion with an existing target, a material, a positive   *)
(* quantity and unitPrice 0 is accepted: the row is prepended with          *)
(* totalPrice 0 and the totals keep their values.                          *)
C9_ZeroUnitPriceAccepted ==
  CanSubmit =>
    \A newItem \in Forms :
      ( /\ Targets(projectEstimate, newItem.fileId) # {}
        /\ StrTruthy(newItem.material)
        /\ Positive(newItem.quantity)
        /\ IsZero(newItem.unitPrice) )
      => LET after == Post(newItem).projectEstimate
         IN  /\ \A d \in Targets(projectEstimate, newItem.fileId) :
                  /\ Len(after.estimates[d].breakdown)
                       = Len(projectEstimate.estimates[d].breakdown) + 1
                  /\ after.estimates[d].breakdown[1].material = newItem.material
                  /\ after.estimates[d].breakdown[1].totalPrice = Num(0)
                  /\ after.estimates[d].totalBudget
                       = projectEstimate.estimates[d].totalBudget
             /\ after.grandTotal = projectEstimate.grandTotal

\* the primary representation of a line item
PrimaryTriple(item) ==
  [qty |-> item.quantity, unit |-> item.unit, rate |-> item.unitPrice]

\* the item has a complete secondary pair
CompletePair(item) ==
  /\ IsNum(item.secondaryQuantity) /\ item.secondaryQuantity.n # 0
  /\ item.secondaryUnit # NoString

(* C10: a row whose flag is false, or whose item lacks a complete secondary *)
(* pair, is shown as (quantity, unit, unitPrice) on screen and in both      *)
(* export rows; stated here for projects whose document ids are distinct.  *)
C10_PrimaryWithoutPair ==
  (Mounted(appState, projectEstimate) /\ DistinctIds(projectEstimate)) =>
    \A d \in Docs(projectEstimate) :
      LET rows == KeyedRows(projectEstimate.estimates[d])
      IN  \A i \in 1..Len(rows) :
            (rows[i].key \notin unitToggleState \/ ~CompletePair(rows[i].item))
            => /\ ScreenTriple(rows[i].item, unitToggleState, rows[i].key)
                    = PrimaryTriple(rows[i].item)
               /\ PdfTriple(rows[i].item, unitToggleState, rows[i].key)
                    = PrimaryTriple(rows[i].item)
               /\ ExcelTriple(rows[i].item, unitToggleState, rows[i].key)
                    = PrimaryTriple(rows[i].item)

\* the secondary representation of a line item
SecondaryTriple(item) ==
  [qty  |-> item.secondaryQuantity,
   unit |-> item.secondaryUnit,
   rate |-> JsDiv(item.totalPrice, item.secondaryQuantity)]

\* the keyed rows of every document of the project
AllRows ==
  IF projectEstimate = NULL THEN {}
  ELSE UNION { {KeyedRows(projectEstimate.estimates[d])[i] :
                  i \in 1..Len(projectEstimate.estimates[d].breakdown)} :
               d \in Docs(projectEstimate) }

(* C11: a row whose item has a complete secondary pair and whose flag is    *)
(* true is shown as (secondaryQuantity, secondaryUnit, totalPrice /         *)
(* secondaryQuantity): the rate comes from totalPrice, not from unitPrice.  *)
C11_SecondaryTriple ==
  Mounted(appState, projectEstimate) =>
    \A row \in AllRows :
      (row.key \in unitToggleState /\ CompletePair(row.item))
      => ScreenTriple(row.item, unitToggleState, row.key)
           = SecondaryTriple(row.item)

\* a row with a complete pair is shown in its secondary unit, and its
\* secondary rate differs from its unitPrice
C11_Witness ==
  /\ Mounted(appState, projectEstimate)
  /\ DistinctIds(projectEstimate)
  /\ \E row \in AllRows :
       /\ row.key \in unitToggleState
       /\ CompletePair(row.item)
       /\ SecondaryTriple(row.item).rate # row.item.unitPrice

(* C12: a toggle step leaves the project estimate (every item, every        *)
(* totalBudget, grandTotal) as it was, and every row's amount cell shows   *)
(* the same totalPrice before and after the step.                          *)
C12_ToggleKeepsCanonical ==
  [][toggleItemUnit =>
       /\ projectEstimate' = projectEstimate
       /\ \A row \in AllRows :
            ScreenAmount(projectEstimate, row.item, unitToggleState', row.key)
              = ScreenAmount(projectEstimate, row.item, unitToggleState,
                             row.key)
       /\ \A row \in AllRows :
            ScreenAmount(projectEstimate, row.item, unitToggleState, row.key).v
              = Round2(row.item.totalPrice)]_vars

\* a row is shown in its secondary unit after a toggle, beside a manual row
C12_Witness ==
  /\ Mounted(appState, projectEstimate)
  /\ ManualCount(projectEstimate) > 0
  /\ \E row \in AllRows :
       /\ row.key \in unitToggleState
       /\ hasSecondary(row.item)
       /\ IsNum(row.item.totalPrice)

(* C13: for a row whose item has a valid secondary pair, flipping its flag   *)
(* and flipping it back, with nothing in between, shows the same           *)
(* (quantity, unit, rate) as before the first flip, whether or not the     *)
(* flag had ever been set.                                                 *)
C13_ToggleTwiceIsIdentity ==
  Mounted(appState, projectEstimate) =>
    \A row \in AllRows :
      hasSecondary(row.item) =>
        LET once  == Toggled(unitToggleState, row.key)
            twice == Toggled(once, row.key)
        IN  /\ ScreenTriple(row.item, twice, row.key)
                 = ScreenTriple(row.item, unitToggleState, row.key)
            /\ \A other \in AllRows :
                 ScreenTriple(other.item, twice, other.key)
                   = ScreenTriple(other.item, unitToggleState, other.key)

\* two documents with distinct ids: one row is shown in its secondary unit,
\* another row with a pair never had its flag set, and a flip changes what
\* it shows
C13_Witness ==
  /\ Mounted(appState, projectEstimate)
  /\ DistinctIds(projectEstimate)
  /\ \E row, other \in AllRows :
       /\ hasSecondary(row.item) /\ row.key \in unitToggleState
       /\ hasSecondary(other.item) /\ other.key \notin unitToggleState
       /\ ScreenTriple(other.item, Toggled(unitToggleState, other.key),
                       other.key)
            # ScreenTriple(other.item, unitToggleState, other.key)

(* C14: for every line item of the project and for both values of its     *)
(* flag, displayed rate times displayed quantity is the item's totalPrice  *)
(* (exact arithmetic), also in the primary view of an item whose draft     *)
(* supplied its own totalPrice.                                            *)
C14_RateTimesQuantityIsTotal ==
  Mounted(appState, projectEstimate) =>
    \A row \in AllRows :
      \A toggles \in {unitToggleState \cup {row.key},
                      unitToggleState \ {row.key}} :
        LET shown == ScreenTriple(row.item, toggles, row.key)
        IN  JsMul(shown.rate, shown.qty) = row.item.totalPrice

C16_ExportTotalsAreCanonical ==
  Mounted(appState, projectEstimate) =>
    /\ \A row \in AllRows :
         LET pdf == PdfRow(projectEstimate, row.item, unitToggleState, row.key)
             xls == ExcelRow(row.item, unitToggleState, row.key)
         IN  /\ xls.total.v = row.item.totalPrice
             /\ pdf.total.v = Round2(row.item.totalPrice)
             /\ pdf.total = ScreenRow(projectEstimate, row.item,
                                      unitToggleState, row.key).total
    /\ \A d \in Docs(projectEstimate) :
         ExcelSubtotal(projectEstimate.estimates[d]).v
           = projectEstimate.estimates[d].totalBudget
    /\ ExcelGrandTotal(projectEstimate).v = projectEstimate.grandTotal
    /\ PdfGrandTotal(projectEstimate).v = Round2(projectEstimate.grandTotal)

\* two documents after a manual insertion, one of them with a budget that
\* summing its rows again would not give, and a row shown in its secondary
\* unit
C16_Witness ==
  /\ Mounted(appState, projectEstimate)
  /\ DistinctIds(projectEstimate)
  /\ Len(projectEstimate.estimates) = 2
  /\ ManualCount(projectEstimate) > 0
  /\ unitToggleState # {}
  /\ \E d \in Docs(projectEstimate) :
       projectEstimate.estimates[d].totalBudget
         # ComputedTotal(projectEstimate.estimates[d].breakdown)

(* C17: a click on either export button, whether the file is saved or the  *)
(* rendering library throws, leaves the project estimate, the unit flags,  *)
(* the active tab and the category filter as they were.                    *)
C17_ExportLeavesStateUnchanged ==
  [][(handleExportPDF \/ handleExportExcel)
       => UNCHANGED <<projectEstimate, unitToggleState, activeTab,
                      selectedCategory>>]_vars

\* right after an export that failed, on a document tab with a category
\* filter, a row shown in its secondary unit and a manual row
C17_Witness ==
  /\ Mounted(appState, projectEstimate)
  /\ lastExport = "failed"
  /\ activeTab # "summary"
  /\ selectedCategory # "All"
  /\ unitToggleState # {}
  /\ ManualCount(projectEstimate) > 0

\* the message analyzeDrawing throws for a file
FailureMessage(file) ==
  Str("Failed to analyze " \o file.name \o ". Please try again.")

(* C18: when the analysis of the k-th document of a batch fails, the batch *)
(* ends there: no call for a later document is pending or will be made,   *)
(* the estimates of documents 1..k-1 are dropped with it, projectEstimate  *)
(* is not set, and the application is in ERROR with the one message of the *)
(* failed document.                                                        *)
C18_FailFast ==
  /\ [][analyzeFails =>
          /\ projectEstimate' = projectEstimate
          /\ appState' = "ERROR"
          /\ \E b \in 1..Len(batches) :
               /\ error' = FailureMessage(batches[b].files[batches[b].i])
               /\ batches' = RemoveAt(batches, b)
          /\ Len(batches') = Len(batches) - 1]_vars

\* the failure of a batch of two documents has been reported
C18_Witness ==
  /\ appState = "ERROR"
  /\ Len(files) = 2
  /\ files[1].id # files[2].id
  /\ error = FailureMessage(files[2])
  /\ projectEstimate = NULL
  /\ batches = <<>>

\* the normalised results a returned call for a file can give
ResultsFor(file) ==
  {CorrectedResult(analyzeDrawing([ok |-> TRUE, data |-> d], file).result) :
     d \in Drafts}

(* C19: a batch works through the files selected when it started, in their *)
(* order and one at a time: the one call in flight is for file number i,   *)
(* the normalised results of files 1..i-1 are in hand in that order, and a *)
(* returning call for file i starts the call for file i+1 and no other.    *)
C19_SequentialInFileOrder ==
  /\ [](\A b \in 1..Len(batches) :
          LET B == batches[b]
          IN  /\ B.i \in 1..Len(B.files)
              /\ Len(B.estimates) = B.i - 1
              /\ \A j \in 1..Len(B.estimates) :
                   /\ B.estimates[j].fileId = B.files[j].id
                   /\ B.estimates[j] \in ResultsFor(B.files[j]))
  /\ [][(handleAnalyze /\ files # <<>>) =>
          batches' = Append(batches,
                            [files |-> files, i |-> 1, estimates |-> <<>>])]_vars
  /\ [][analyzeNext =>
          \E b \in 1..Len(batches) :
            /\ Len(batches') = Len(batches)
            /\ batches'[b].files = batches[b].files
            /\ batches'[b].i = batches[b].i + 1
            /\ SubSeq(batches'[b].estimates, 1, Len(batches[b].estimates))
                 = batches[b].estimates
            /\ \A c \in 1..Len(batches) : c # b => batches'[c] = batches[c]]_vars

\* the call for the second of two different files is in flight and the
\* result of the first one is in hand
C19_Witness ==
  \E b \in 1..Len(batches) :
    /\ Len(batches[b].files) = 2
    /\ batches[b].files[1].id # batches[b].files[2].id
    /\ batches[b].i = 2
    /\ Len(batches[b].estimates) = 1
    /\ batches[b].estimates[1].fileId = batches[b].files[1].id
    /\ batches[b].estimates[1].breakdown # <<>>

\* the drafts with no breakdown list or an empty one
EmptyDrafts ==
  {d \in Drafts : d.breakdown.k # "list" \/ d.breakdown.v = <<>>}

(* C20: a returned draft without a breakdown list, or with an empty one,   *)
(* is normalised to a document with an empty breakdown and totalBudget 0;  *)
(* the call's return does not put the application in ERROR; if it was the  *)
(* last file, the document is in the project's estimates at its position   *)
(* and grandTotal is what the other documents add up to.  Every document   *)
(* of a project with an empty breakdown has totalBudget 0.                 *)
C20_EmptyDraftIsZeroDocument ==
  /\ [](\A b \in 1..Len(batches) : \A d \in EmptyDrafts :
          LET B   == batches[b]
              r   == analyzeDrawing([ok |-> TRUE, data |-> d], B.files[B.i])
              est == CorrectedResult(r.result)
              pe  == NewProjectEstimate(Append(B.estimates, est))
          IN  /\ r.ok
              /\ est.breakdown = <<>>
              /\ est.totalBudget = Num(0)
              /\ est.fileId = B.files[B.i].id
              /\ Len(pe.estimates) = B.i
              /\ pe.estimates[B.i] = est
              /\ pe.grandTotal = GrandTotal(B.estimates))
  /\ [](Mounted(appState, projectEstimate) =>
          \A d \in Docs(projectEstimate) :
            projectEstimate.estimates[d].breakdown = <<>>
              => projectEstimate.estimates[d].totalBudget = Num(0))
  /\ [][analyzeNext => UNCHANGED <<appState, error, projectEstimate>>]_vars
  /\ [][analyzeLast =>
          /\ appState' = "RESULTS" /\ error' = error
          /\ projectEstimate' # NULL]_vars

\* a project of two documents: one with an empty breakdown, the other with
\* a budget that is not zero, which alone makes up the grand total
C20_Witness ==
  /\ Mounted(appState, projectEstimate)
  /\ DistinctIds(projectEstimate)
  /\ Len(projectEstimate.estimates) = 2
  /\ projectEstimate.estimates[2].breakdown = <<>>
  /\ projectEstimate.estimates[2].totalBudget = Num(0)
  /\ Positive(projectEstimate.estimates[1].totalBudget)
  /\ projectEstimate.grandTotal = projectEstimate.estimates[1].totalBudget

\* a step in which a pending collaborator call returns a parsed draft
DraftReturned == analyzeNext \/ analyzeLast \/ normalizeFails

(* C21: a returned draft that parses as JSON, however malformed (a          *)
(* breakdown that is not a list, a null entry, items with missing numeric  *)
(* fields), never puts the application in ERROR, and the project a batch   *)
(* produces has numbers for every totalBudget and for grandTotal.          *)
C21_MalformedDraftRepaired ==
  /\ [][DraftReturned => appState' # "ERROR"]_vars
  /\ [][analyzeLast =>
          /\ IsNum(projectEstimate'.grandTotal)
          /\ \A d \in Docs(projectEstimate') :
               IsNum(projectEstimate'.estimates[d].totalBudget)]_vars

(* C22: the project estimate is null while the application is ANALYZING;   *)
(* it comes into being only when the call for the last file of a batch has *)
(* returned, with one document per file of that batch; and resetApp leaves *)
(* no project estimate, no selected file, no error, and the state IDLE.    *)
C22_CreatedWholeResetWhole ==
  /\ [](appState = "ANALYZING" => projectEstimate = NULL)
  /\ [][(projectEstimate = NULL /\ projectEstimate' # NULL) =>
          \E b \in 1..Len(batches) :
            /\ batches[b].i = Len(batches[b].files)
            /\ Len(projectEstimate'.estimates) = Len(batches[b].files)
            /\ \A j \in 1..Len(batches[b].files) :
                 projectEstimate'.estimates[j].fileId
                   = batches[b].files[j].id]_vars
  /\ [][resetApp =>
          /\ projectEstimate' = NULL /\ files' = <<>>
          /\ error' = NULL /\ appState' = "IDLE"]_vars

\* a step in which analyzeDrawing is called: the first call of a new
\* invocation, or the call for the next file of a running one
CallMade ==
  \/ Len(batches') > Len(batches)
  \/ \E b \in 1..Len(batches) :
       /\ Len(batches') = Len(batches)
       /\ batches'[b].i > batches[b].i

(* C23: once a batch has failed the application stays in ERROR until the   *)
(* user clicks Retry or resets, and no collaborator call is made while it  *)
(* is in ERROR; Retry leads to IDLE and keeps the selected files; a new     *)
(* batch only starts with Analyze in IDLE; a failure sets one message.     *)
C23_NoAutomaticRetry ==
  /\ [][(appState = "ERROR" /\ appState' # "ERROR") => (retry \/ resetApp)]_vars
  /\ [][CallMade => appState # "ERROR"]_vars
  /\ [][retry => (appState' = "IDLE" /\ UNCHANGED <<files, batches>>)]_vars
  /\ [][Len(batches') > Len(batches) =>
          /\ appState = "IDLE" /\ appState' = "ANALYZING"
          /\ files # <<>>
          /\ batches' = Append(batches,
                               [files |-> files, i |-> 1, estimates |-> <<>>])]_vars
  /\ [][analyzeFails =>
          \E b \in 1..Len(batches) :
            error' = FailureMessage(batches[b].files[batches[b].i])]_vars

(* C24: the documents of a project estimate have pairwise distinct         *)
(* identifiers, so an identifier names one document and a toggle key       *)
(* (identifier, position) names one line item.                             *)
C24_DocumentIdsDistinct ==
  projectEstimate # NULL =>
    /\ \A d, e \in Docs(projectEstimate) :
         projectEstimate.estimates[d].fileId
           = projectEstimate.estimates[e].fileId => d = e
    /\ \A row, other \in AllRows :
         row.key = other.key => row.item = other.item

\* the responses the claim counts as failures: a rejected call, an empty
\* text, no "{" or no "}", a last "}" before the first "{", or text between
\* the two that is not valid JSON
FailedResponse(response) ==
  LET text       == response.text
      startIndex == indexOf(text, "{")
      endIndex   == lastIndexOf(text, "}")
  IN  \/ response.rejected
      \/ text = <<>>
      \/ startIndex = -1 \/ endIndex = -1
      \/ endIndex < startIndex
      \/ ~JSONparse(SubSeq(text, startIndex + 1, endIndex + 1)).ok

(* C25: for the call in flight and every response, a failed response makes *)
(* analyzeDrawing throw the one error 'Failed to analyze <fileName>', and  *)
(* a result it returns carries the caller's fileId and fileName, whatever  *)
(* the collaborator's JSON says; the estimates in hand carry the ids of    *)
(* the files at their positions.                                           *)
C25_FailuresThrowResultsCarryIds ==
  \A b \in 1..Len(batches) :
    LET B == batches[b]
    IN  /\ \A response \in Responses :
             LET r == analyzeDrawing(ParseResponse(response), B.files[B.i])
             IN  /\ FailedResponse(response) =>
                      (~r.ok /\ Str(r.message) = FailureMessage(B.files[B.i]))
                 /\ r.ok => /\ r.result.fileId = B.files[B.i].id
                             /\ r.result.fileName = B.files[B.i].name
        /\ \A j \in 1..Len(B.estimates) :
             B.estimates[j].fileId = B.files[j].id

(* C26: when the modal's submit inserts a row into a document, every row   *)
(* the document had is shown, and exported, after the insertion as it was  *)
(* before it (a row in its secondary unit stays in its secondary unit),    *)
(* and the inserted row at the top has its flag unset and is shown in its  *)
(* primary unit.                                                           *)
C26_FlagStaysWithItem ==
  [][(handleModalSubmit /\ projectEstimate' # projectEstimate) =>
       \A d \in Docs(projectEstimate) :
         LET old == projectEstimate.estimates[d]
             new == projectEstimate'.estimates[d]
         IN  Len(new.breakdown) = Len(old.breakdown) + 1 =>
               /\ \A i \in 1..Len(old.breakdown) :
                    /\ new.breakdown[i + 1] = old.breakdown[i]
                    /\ ScreenTriple(new.breakdown[i + 1], unitToggleState',
                                    Key(new.fileId, i))
                         = ScreenTriple(old.breakdown[i], unitToggleState,
                                        Key(old.fileId, i - 1))
                    /\ PdfTriple(new.breakdown[i + 1], unitToggleState',
                                 Key(new.fileId, i))
                         = PdfTriple(old.breakdown[i], unitToggleState,
                                     Key(old.fileId, i - 1))
                    /\ ExcelTriple(new.breakdown[i + 1], unitToggleState',
                                   Key(new.fileId, i))
                         = ExcelTriple(old.breakdown[i], unitToggleState,
                                       Key(old.fileId, i - 1))
               /\ Key(new.fileId, 0) \notin unitToggleState'
               /\ ScreenTriple(new.breakdown[1], unitToggleState',
                               Key(new.fileId, 0))
                    = PrimaryTriple(new.breakdown[1])]_vars

(* C27: an invocation of handleAnalyze that a reset has left behind does   *)
(* nothing to what the user sees: while the application is IDLE its state  *)
(* changes only by a new Analyze, a null project estimate stays null and a *)
(* cleared error stays cleared; and when an invocation ends while a later  *)
(* one is still running, appState, error and projectEstimate stay as they  *)
(* are.                                                                    *)
C27_StaleBatchHasNoEffect ==
  /\ [][appState = "IDLE" =>
          \/ appState' = "IDLE"
          \/ appState' = "ANALYZING" /\ Len(batches') > Len(batches)]_vars
  /\ [][(appState = "IDLE" /\ projectEstimate = NULL)
          => projectEstimate' = NULL]_vars
  /\ [][(appState = "IDLE" /\ error = NULL) => error' = NULL]_vars
  /\ [][(\E b \in 1..(Len(batches) - 1) : batches' = RemoveAt(batches, b)
                                           /\ batches[b] # batches[Len(batches)])
          => UNCHANGED <<appState, error, projectEstimate>>]_vars

(* C28: in every reachable state there is a project estimate exactly when  *)
(* the application is in RESULTS.                                          *)
C28_EstimateIffResults ==
  (projectEstimate # NULL) <=> (appState = "RESULTS")

(* C29: with the category filter on 'All', the footer total of the table   *)
(* is grandTotal on the summary tab and the shown document's totalBudget   *)
(* on a document tab.                                                      *)
C29_FooterIsStoredTotal ==
  (Mounted(appState, projectEstimate) /\ selectedCategory = "All") =>
    LET footer == currentViewTotal(projectEstimate, activeTab, selectedCategory)
        shown  == currentEstimate(projectEstimate, activeTab)
    IN  /\ activeTab = "summary" => footer = projectEstimate.grandTotal
        /\ (activeTab # "summary" /\ shown # <<>>)
             => footer = shown[1].totalBudget

(* C30: if every awaited collaborator call settles, an application that   *)
(* is ANALYZING eventually shows RESULTS or ERROR; and with no selected     *)
(* file Analyze does nothing: the application enters ANALYZING, and an     *)
(* invocation makes its first call, only with a file selected.             *)
C30_AnalysisTerminates ==
  /\ (appState = "ANALYZING") ~> (appState \in {"RESULTS", "ERROR"})
  /\ [][(appState # "ANALYZING" /\ appState' = "ANALYZING") =>
          (files # <<>> /\ Len(batches') = Len(batches) + 1)]_vars
  /\ [][Len(batches') > Len(batches) => files # <<>>]_vars

\* a batch of two files has run to its end
C30_Witness ==
  /\ appState = "RESULTS"
  /\ projectEstimate # NULL
  /\ Len(projectEstimate.estimates) = 2
  /\ batches = <<>>

===========================================================================
